---- MODULE Spec2Model ----
(***************************************************************************)
(* Model of scripts/generate-favicon-python.py: one invocation of the      *)
(* script is the module-level imports followed by generate_favicons(); the *)
(* filesystem (logo.png, the public/ directory and the files in it) is the *)
(* state that survives from one invocation to the next.                    *)
(***************************************************************************)
EXTENDS Integers, Sequences, FiniteSets, TLC

\* Bounds of the model.
MaxDim == 2      \* the logo's width and height are at most MaxDim
MaxRuns == 2     \* successive invocations of the script

(***************************************************************************)
(* Module-level constants of the script.                                   *)
(***************************************************************************)
\* The list with the apple-touch-icon entry left out.
sizesNoApple ==
    << [name |-> "favicon-16x16.png", size |-> 16],
       [name |-> "favicon-32x32.png", size |-> 32],
       [name |-> "android-chrome-192x192.png", size |-> 192],
       [name |-> "android-chrome-512x512.png", size |-> 512] >>

\* The list with the 192 entry written under the name of a 196 icon.
sizesRenamed192 ==
    << [name |-> "favicon-16x16.png", size |-> 16],
       [name |-> "favicon-32x32.png", size |-> 32],
       [name |-> "apple-touch-icon.png", size |-> 180],
       [name |-> "android-chrome-196x196.png", size |-> 192],
       [name |-> "android-chrome-512x512.png", size |-> 512] >>

sizes ==
    << [name |-> "favicon-16x16.png", size |-> 16],
       [name |-> "favicon-32x32.png", size |-> 32],
       [name |-> "apple-touch-icon.png", size |-> 180],
       [name |-> "android-chrome-192x192.png", size |-> 192],
       [name |-> "android-chrome-512x512.png", size |-> 512] >>

ico_name == "favicon.ico"

manifest_name == "site.webmanifest"

\* The document with the second icon's sizes copied from the first.
manifestCopiedSizes ==
    [ name |-> "Invent Alliance Limited",
      short_name |-> "Invent Alliance",
      icons |-> << [src |-> "/android-chrome-192x192.png",
                    sizes |-> "192x192",
                    type |-> "image/png"],
                   [src |-> "/android-chrome-512x512.png",
                    sizes |-> "192x192",
                    type |-> "image/png"] >>,
      theme_color |-> "#0f172a",
      background_color |-> "#0f172a",
      display |-> "standalone" ]

manifest ==
    [ name |-> "Invent Alliance Limited",
      short_name |-> "Invent Alliance",
      icons |-> << [src |-> "/android-chrome-192x192.png",
                    sizes |-> "192x192",
                    type |-> "image/png"],
                   [src |-> "/android-chrome-512x512.png",
                    sizes |-> "512x512",
                    type |-> "image/png"] >>,
      theme_color |-> "#0f172a",
      background_color |-> "#0f172a",
      display |-> "standalone" ]

\* The printed lines.
NotFoundLines ==
    << "Logo file not found!",
       "Please download the logo from:",
       "https://www.inventallianceco.com/wp-content/uploads/2018/01/invent_mainx1.png",
       "And save it as \"logo.png\" in the project root." >>

GeneratingLine == "Generating favicons..."

GeneratedLine(name) == "Generated " \o name

SuccessLines ==
    << "\nAll favicons generated successfully!",
       "Files are in the public/ directory" >>

ErrorLine(msg) == "Error generating favicons: " \o msg

HintLine == "\nMake sure Pillow is installed: pip install Pillow"

(***************************************************************************)
(* Files and images.  A directory listing is a function from the names of  *)
(* the files present to their contents.                                    *)
(***************************************************************************)
NoLogo == [fmt |-> "none"]

\* The logo files tried: square, wide and tall ones.
LogoFiles == { [fmt |-> "image", w |-> w, h |-> h] : w \in {1, MaxDim}, h \in 1..MaxDim }

NoImage == [w |-> 0, h |-> 0]

EmptyDir == [n \in {} |-> NoLogo]

\* What an interrupted write leaves behind, and what an earlier tool left.
Partial == [fmt |-> "partial"]

Stale == [fmt |-> "stale"]

StaleDir ==
    [n \in { sizes[k].name : k \in 1..Len(sizes) }
            \cup {ico_name, manifest_name, "robots.txt"} |-> Stale]

\* os.path.exists(logo_path)
Exists(f) == f # NoLogo

\* os.makedirs(public_dir, exist_ok=True): the directory afterwards.
Makedirs(d) == IF d = "absent" THEN "dir" ELSE d

\* Image.open(logo_path)
ImageOpen(f) == [w |-> f.w, h |-> f.h, px |-> "logo.png"]

\* A resize that fits its argument into w x h and keeps its aspect ratio
\* (what Image.thumbnail does).
ResizeKeepAspect(im, w, h) ==
    [w |-> IF im.w >= im.h THEN w ELSE (h * im.w) \div im.h,
     h |-> IF im.w >= im.h THEN (w * im.h) \div im.w ELSE h,
     px |-> <<"LANCZOS", im>>]

\* logo.resize((w, h), Image.Resampling.LANCZOS)
Resize(im, w, h) == [w |-> w, h |-> h, px |-> <<"LANCZOS", im>>]

\* favicon.save(path, fmt): the bytes of the file written.
Encode(im, fmt) == [fmt |-> fmt, w |-> im.w, h |-> im.h, px |-> im.px]

\* json.dump(doc, f, indent=2): the text written.
JsonDump(doc) == [fmt |-> "JSON", indent |-> 2, value |-> doc]

\* A write that creates or replaces the file `name` of listing fs.
WriteFile(fs, name, content) == (name :> content) @@ fs

\* open(path, 'a'): the text is added to what the file holds.
OpenA(fs, name, text) ==
    IF name \in DOMAIN fs
    THEN (name :> [fmt |-> "appended", old |-> fs[name], new |-> text]) @@ fs
    ELSE (name :> text) @@ fs

\* open(path, 'w', encoding='utf-8') followed by the write of text.
OpenW(fs, name, text) == (name :> text) @@ fs

\* What a write that raises can leave: the listing untouched, or a
\* truncated file under the name.
FailedWrites(fs, name) == { fs, (name :> Partial) @@ fs }

(***************************************************************************)
(* State.                                                                  *)
(***************************************************************************)
VARIABLES
    pillow,      \* whether the PIL package can be imported
    logo,        \* the file at logo_path, NoLogo when there is none
    publicDir,   \* what is at public_dir: "absent", "dir" or "file"
    files,       \* the listing of public_dir
    pc,          \* the statement the invocation is at
    i,           \* index of the loop over sizes (1-based)
    logoImg,     \* local `logo`
    favicon,     \* locals `favicon` / `favicon_32`
    out,         \* the lines printed by this invocation
    exitStatus,  \* "running", "0", or "1" (ended by an uncaught exception)
    run,         \* number of the invocation
    dir0,        \* publicDir when this invocation started
    files0,      \* files when this invocation started
    opens,       \* calls of Image.open in this invocation
    attempts,    \* names whose write was attempted, in order
    failedAt,    \* the statement that raised in this invocation, or "none"
    mkdir,       \* what os.makedirs did: "unset", "noop" or "created"
    prev         \* the previous invocation: [success, mkdir, sameLogo], or NoPrev

vars == << pillow, logo, publicDir, files, pc, i, logoImg, favicon, out,
           exitStatus, run, dir0, files0, opens, attempts, failedAt, mkdir, prev >>

env == << pillow, logo >>

hist == << run, dir0, files0, prev >>

NoPrev == [success |-> FALSE, mkdir |-> "unset", sameLogo |-> FALSE]

\* The text of the exception raised at a statement (str(e)).
StrE(step) == step \o " failed"

\* The success message is the last thing printed.
Succeeded ==
    /\ Len(out) >= Len(SuccessLines)
    /\ SubSeq(out, Len(out) - Len(SuccessLines) + 1, Len(out)) = SuccessLines

Init ==
    /\ pillow \in BOOLEAN
    /\ logo \in {NoLogo} \cup LogoFiles
    /\ \E d \in {"absent", "empty", "stale", "file"} :
          /\ publicDir = (IF d \in {"empty", "stale"} THEN "dir" ELSE d)
          /\ files = (IF d = "stale" THEN StaleDir ELSE EmptyDir)
    /\ pc = "import"
    /\ i = 1
    /\ logoImg = NoImage
    /\ favicon = NoImage
    /\ out = << >>
    /\ exitStatus = "running"
    /\ run = 1
    /\ dir0 = publicDir
    /\ files0 = files
    /\ opens = 0
    /\ attempts = << >>
    /\ failedAt = "none"
    /\ mkdir = "unset"
    /\ prev = NoPrev

(***************************************************************************)
(* How a statement that raises ends the invocation.                        *)
(***************************************************************************)
\* An exception outside the try block: traceback, exit status 1.
Uncaught(step) ==
    /\ pc' = "done"
    /\ exitStatus' = "1"
    /\ failedAt' = step
    /\ UNCHANGED out

\* A handler that removes what the invocation has written so far.
ExceptCleanup(step, fs) ==
    /\ files' = [n \in DOMAIN fs \ { attempts[k] : k \in 1..Len(attempts) } |-> fs[n]]
    /\ out' = out \o << ErrorLine(StrE(step)), HintLine >>
    /\ pc' = "done"
    /\ exitStatus' = "0"
    /\ failedAt' = step

\* except Exception as e: the two prints, then the function returns.
\* fs is the listing the raising statement left.
Except(step, fs) ==
    /\ files' = fs
    /\ out' = out \o << ErrorLine(StrE(step)), HintLine >>
    /\ pc' = "done"
    /\ exitStatus' = "0"
    /\ failedAt' = step

(***************************************************************************)
(* The statements of one invocation.                                       *)
(***************************************************************************)
\* import os, json; from PIL import Image
Import ==
    /\ pc = "import"
    /\ IF pillow
       THEN /\ pc' = "check"
            /\ UNCHANGED << out, exitStatus, failedAt >>
       ELSE Uncaught("import")
    /\ UNCHANGED << env, hist, publicDir, files, i, logoImg, favicon, opens,
                    attempts, mkdir >>

\* The directory is ensured before the logo is looked for.
CheckLogoLate ==
    /\ pc = "check"
    /\ publicDir' = Makedirs(publicDir)
    /\ IF ~Exists(logo)
       THEN /\ out' = out \o NotFoundLines
            /\ pc' = "done"
            /\ exitStatus' = "0"
       ELSE /\ pc' = "makedirs"
            /\ UNCHANGED << out, exitStatus >>
    /\ UNCHANGED << env, hist, files, i, logoImg, favicon, opens,
                    attempts, failedAt, mkdir >>

\* if not os.path.exists(logo_path): four prints and return
CheckLogo ==
    /\ pc = "check"
    /\ IF ~Exists(logo)
       THEN /\ out' = out \o NotFoundLines
            /\ pc' = "done"
            /\ exitStatus' = "0"
       ELSE /\ pc' = "makedirs"
            /\ UNCHANGED << out, exitStatus >>
    /\ UNCHANGED << env, hist, publicDir, files, i, logoImg, favicon, opens,
                    attempts, failedAt, mkdir >>

\* os.makedirs(public_dir, exist_ok=True); print('Generating favicons...')
\* It raises when public_dir is a regular file, and may raise when the
\* directory has to be created (a read-only project root).
MakeDirs ==
    /\ pc = "makedirs"
    /\ \/ /\ publicDir # "file"
          /\ publicDir' = Makedirs(publicDir)
          /\ mkdir' = (IF publicDir = "dir" THEN "noop" ELSE "created")
          /\ out' = Append(out, GeneratingLine)
          /\ pc' = "open"
          /\ UNCHANGED << exitStatus, failedAt >>
       \/ /\ publicDir # "dir"
          /\ Uncaught("makedirs")
          /\ UNCHANGED << publicDir, mkdir >>
    /\ UNCHANGED << env, hist, files, i, logoImg, favicon, opens, attempts >>

\* logo = Image.open(logo_path)
OpenLogo ==
    /\ pc = "open"
    /\ opens' = opens + 1
    /\ \/ /\ logoImg' = ImageOpen(logo)
          /\ i' = 1
          /\ pc' = (IF Len(sizes) >= 1 THEN "resize" ELSE "resize_ico")
          /\ UNCHANGED << files, out, exitStatus, failedAt >>
       \/ /\ Except("open", files)
          /\ UNCHANGED << logoImg, i >>
    /\ UNCHANGED << env, hist, publicDir, favicon, attempts, mkdir >>

\* favicon = logo.resize((size, size), Image.Resampling.LANCZOS)
ResizePng ==
    /\ pc = "resize"
    /\ \/ /\ favicon' = Resize(logoImg, sizes[i].size, sizes[i].size)
          /\ pc' = "save"
          /\ UNCHANGED << files, out, exitStatus, failedAt >>
       \/ /\ Except("resize", files)
          /\ UNCHANGED favicon
    /\ UNCHANGED << env, hist, publicDir, i, logoImg, opens, attempts, mkdir >>

\* The loop leaves one entry early.
AfterSaveShort(k) == IF k < Len(sizes) - 1 THEN "resize" ELSE "resize_ico"

\* for item in sizes: where the loop goes after the body for entry k.
AfterSave(k) == IF k < Len(sizes) THEN "resize" ELSE "resize_ico"

\* favicon.save(output_path, 'PNG'); print(f'Generated {name}')
SavePng ==
    /\ pc = "save"
    /\ attempts' = Append(attempts, sizes[i].name)
    /\ \/ /\ files' = WriteFile(files, sizes[i].name, Encode(favicon, "PNG"))
          /\ out' = Append(out, GeneratedLine(sizes[i].name))
          /\ pc' = AfterSave(i)
          /\ i' = i + 1
          /\ UNCHANGED << exitStatus, failedAt >>
       \/ /\ \E fs \in FailedWrites(files, sizes[i].name) : Except("save", fs)
          /\ UNCHANGED i
    /\ UNCHANGED << env, hist, publicDir, logoImg, favicon, opens, mkdir >>

\* favicon_32 = logo.resize((32, 32), Image.Resampling.LANCZOS)
ResizeIco ==
    /\ pc = "resize_ico"
    /\ \/ /\ favicon' = Resize(logoImg, 32, 32)
          /\ pc' = "save_ico"
          /\ UNCHANGED << files, out, exitStatus, failedAt >>
       \/ /\ Except("resize_ico", files)
          /\ UNCHANGED favicon
    /\ UNCHANGED << env, hist, publicDir, i, logoImg, opens, attempts, mkdir >>

\* favicon_32.save(favicon_ico_path, 'ICO'); print('Generated favicon.ico')
SaveIco ==
    /\ pc = "save_ico"
    /\ attempts' = Append(attempts, ico_name)
    /\ \/ /\ files' = WriteFile(files, ico_name, Encode(favicon, "ICO"))
          /\ out' = Append(out, GeneratedLine(ico_name))
          /\ pc' = "manifest"
          /\ UNCHANGED << exitStatus, failedAt >>
       \/ \E fs \in FailedWrites(files, ico_name) : Except("save_ico", fs)
    /\ UNCHANGED << env, hist, publicDir, i, logoImg, favicon, opens, mkdir >>

\* manifest = {...}; with open(manifest_path, 'w') as f: json.dump(...);
\* the three prints that follow, and the return.
WriteManifest ==
    /\ pc = "manifest"
    /\ attempts' = Append(attempts, manifest_name)
    /\ \/ /\ files' = OpenW(files, manifest_name, JsonDump(manifest))
          /\ out' = Append(out, GeneratedLine(manifest_name)) \o SuccessLines
          /\ pc' = "done"
          /\ exitStatus' = "0"
          /\ UNCHANGED failedAt
       \/ \E fs \in FailedWrites(files, manifest_name) : Except("manifest", fs)
    /\ UNCHANGED << env, hist, publicDir, i, logoImg, favicon, opens, mkdir >>

\* The script is run again: a new process on the public directory as it was
\* left; the logo may have been replaced or removed in between.
NextRun ==
    /\ pc = "done"
    /\ run < MaxRuns
    /\ run' = run + 1
    /\ dir0' = publicDir
    /\ files0' = files
    /\ logo' \in {NoLogo} \cup LogoFiles
    /\ prev' = [success |-> Succeeded, mkdir |-> mkdir, sameLogo |-> (logo' = logo)]
    /\ pc' = "import"
    /\ i' = 1
    /\ logoImg' = NoImage
    /\ favicon' = NoImage
    /\ out' = << >>
    /\ exitStatus' = "running"
    /\ opens' = 0
    /\ attempts' = << >>
    /\ failedAt' = "none"
    /\ mkdir' = "unset"
    /\ UNCHANGED << pillow, publicDir, files >>

Next ==
    \/ Import
    \/ CheckLogo
    \/ MakeDirs
    \/ OpenLogo
    \/ ResizePng
    \/ SavePng
    \/ ResizeIco
    \/ SaveIco
    \/ WriteManifest
    \/ NextRun

Spec == Init /\ [][Next]_vars

(***************************************************************************)
(* Vocabulary of the properties.                                           *)
(***************************************************************************)
IsPrefix(s, t) == Len(s) <= Len(t) /\ SubSeq(t, 1, Len(s)) = s

Range(s) == { s[k] : k \in 1..Len(s) }

\* The fixed write order and the seven output names, as documented.
ExpectedOrder ==
    << "favicon-16x16.png", "favicon-32x32.png", "apple-touch-icon.png",
       "android-chrome-192x192.png", "android-chrome-512x512.png",
       "favicon.ico", "site.webmanifest" >>

ExpectedNames == Range(ExpectedOrder)

\* The names this invocation has written completely, in order.
Written ==
    IF failedAt \in {"save", "save_ico", "manifest"}
    THEN SubSeq(attempts, 1, Len(attempts) - 1)
    ELSE attempts

\* A file some statement of the script wrote to its end.
Complete(f) == f.fmt \in {"PNG", "ICO", "JSON"}

ErrorPrinted ==
    /\ Len(out) >= 2
    /\ out[Len(out)] = HintLine
    /\ \E step \in {"open", "resize", "save", "resize_ico", "save_ico", "manifest"} :
          out[Len(out) - 1] = ErrorLine(StrE(step))

SuccessPrinted == \E k \in 1..Len(out) : out[k] \in Range(SuccessLines)

NotFoundPrinted == out = NotFoundLines

\* generate_favicons() has been entered (the imports did not raise).
Entered == pc # "import" /\ failedAt # "import"

(***************************************************************************)
(* C1.  When logo.png is absent at the start of generate_favicons(), the   *)
(* invocation changes nothing on the filesystem: the directory is not      *)
(* created, no output is attempted, and once past the existence check the  *)
(* function has returned normally having printed exactly the not-found     *)
(* guidance (neither the success nor the error message).                   *)
(***************************************************************************)
C1_AbsentLogoNoMutation ==
    (Entered /\ ~Exists(logo)) =>
        /\ publicDir = dir0
        /\ files = files0
        /\ mkdir = "unset"
        /\ attempts = << >>
        /\ opens = 0
        /\ pc # "check" =>
              /\ pc = "done"
              /\ exitStatus = "0"
              /\ NotFoundPrinted
              /\ ~SuccessPrinted
              /\ ~ErrorPrinted

C1_Witness ==
    /\ ~Exists(logo)
    /\ pc = "done"
    /\ NotFoundPrinted
    /\ dir0 = "absent"
    /\ publicDir = "absent"

(***************************************************************************)
(* C2.  An invocation with the logo present in which no statement raises,  *)
(* started on an empty or absent public directory, ends with the success   *)
(* message printed and with exactly the seven documented files in the      *)
(* directory, each written to its end.                                     *)
(***************************************************************************)
C2_ExactlySevenFiles ==
    ( /\ pc = "done"
      /\ Exists(logo)
      /\ failedAt = "none"
      /\ files0 = EmptyDir ) =>
        /\ Succeeded
        /\ publicDir = "dir"
        /\ DOMAIN files = ExpectedNames
        /\ Cardinality(DOMAIN files) = 7
        /\ \A n \in DOMAIN files : Complete(files[n])

C2_Witness ==
    /\ pc = "done"
    /\ Exists(logo)
    /\ failedAt = "none"
    /\ dir0 = "absent"
    /\ files0 = EmptyDir
    /\ Succeeded
    /\ Cardinality(DOMAIN files) = 7

(***************************************************************************)
(* C3.  After a successful invocation every PNG of the sizes list is       *)
(* size x size pixels whatever the logo's width and height, and            *)
(* favicon.ico holds the 32x32 resize of the logo.                         *)
(***************************************************************************)
C3_SquareOutputs ==
    (pc = "done" /\ Succeeded) =>
        /\ \A k \in 1..Len(sizes) :
              /\ sizes[k].name \in DOMAIN files
              /\ files[sizes[k].name].fmt = "PNG"
              /\ files[sizes[k].name].w = sizes[k].size
              /\ files[sizes[k].name].h = sizes[k].size
              /\ files[sizes[k].name].px = <<"LANCZOS", ImageOpen(logo)>>
        /\ ico_name \in DOMAIN files
        /\ files[ico_name] =
              [fmt |-> "ICO", w |-> 32, h |-> 32, px |-> <<"LANCZOS", ImageOpen(logo)>>]

C3_Witness ==
    /\ pc = "done"
    /\ Succeeded
    /\ logo.w # logo.h
    /\ files["android-chrome-512x512.png"].w = 512
    /\ files["android-chrome-512x512.png"].h = 512

(***************************************************************************)
(* C4.  After a successful invocation site.webmanifest holds the fixed     *)
(* document, whatever the logo, and each of its icons names a file of the  *)
(* sizes list with that entry's size.                                      *)
(***************************************************************************)
C4_ManifestLiteral ==
    (pc = "done" /\ Succeeded) =>
        /\ manifest_name \in DOMAIN files
        /\ files[manifest_name].fmt = "JSON"
        /\ files[manifest_name].value =
              [ name |-> "Invent Alliance Limited",
                short_name |-> "Invent Alliance",
                icons |-> << [src |-> "/android-chrome-192x192.png",
                              sizes |-> "192x192", type |-> "image/png"],
                             [src |-> "/android-chrome-512x512.png",
                              sizes |-> "512x512", type |-> "image/png"] >>,
                theme_color |-> "#0f172a",
                background_color |-> "#0f172a",
                display |-> "standalone" ]
        /\ \A j \in 1..Len(files[manifest_name].value.icons) :
              \E k \in 1..Len(sizes) :
                 /\ files[manifest_name].value.icons[j].src = "/" \o sizes[k].name
                 /\ files[manifest_name].value.icons[j].sizes =
                       ToString(sizes[k].size) \o "x" \o ToString(sizes[k].size)

C4_Witness ==
    /\ pc = "done"
    /\ Succeeded
    /\ run = 2
    /\ ~prev.sameLogo
    /\ prev.success
    /\ files[manifest_name] = files0[manifest_name]

(***************************************************************************)
(* C5 (as amended).  A successful invocation that follows a successful     *)
(* invocation on the same logo leaves the public directory exactly as it   *)
(* found it, every output having been written again, and its               *)
(* directory-creation step is a no-op.                                     *)
(***************************************************************************)
C5_SecondRunIdempotent ==
    (pc = "done" /\ Succeeded /\ prev.success /\ prev.sameLogo) =>
        /\ files = files0
        /\ Range(attempts) = ExpectedNames
        /\ mkdir = "noop"

C5_Witness ==
    /\ pc = "done"
    /\ Succeeded
    /\ prev.success
    /\ prev.sameLogo
    /\ prev.mkdir = "created"
    /\ Len(attempts) = 7
    /\ files = files0

(***************************************************************************)
(* C5 (as claimed).  The same, and the directory-creation step was a no-op *)
(* in the first of the two invocations too.                                *)
(***************************************************************************)
C5_Original ==
    (pc = "done" /\ Succeeded /\ prev.success /\ prev.sameLogo) =>
        /\ files = files0
        /\ Range(attempts) = ExpectedNames
        /\ mkdir = "noop"
        /\ prev.mkdir = "noop"

(***************************************************************************)
(* C6.  Every invocation ends with exit status 0, and every statement that *)
(* raises (the imports, the directory creation, decode, resize, save,      *)
(* manifest write) is reported by the handler's error message and hint.    *)
(***************************************************************************)
C6_AlwaysExitZero ==
    pc = "done" =>
        /\ exitStatus = "0"
        /\ failedAt # "none" => ErrorPrinted

(***************************************************************************)
(* C7.  With the logo present the side effects come in the fixed order:    *)
(* the directory is ensured before any write, the writes attempted are a   *)
(* prefix of the documented order, favicon.ico is attempted only after all *)
(* five PNGs are written, and site.webmanifest only after favicon.ico is.  *)
(***************************************************************************)
C7_FixedOrder ==
    /\ IsPrefix(attempts, ExpectedOrder)
    /\ attempts # << >> => (publicDir = "dir" /\ mkdir # "unset")
    /\ pc \in {"open", "resize", "save", "resize_ico", "save_ico", "manifest"} =>
          (publicDir = "dir" /\ mkdir # "unset")
    /\ "favicon.ico" \in Range(attempts) =>
          \A k \in 1..5 : ExpectedOrder[k] \in Range(Written)
    /\ pc = "save_ico" => \A k \in 1..5 : ExpectedOrder[k] \in Range(Written)
    /\ "site.webmanifest" \in Range(attempts) => "favicon.ico" \in Range(Written)
    /\ pc = "manifest" => "favicon.ico" \in Range(Written)

C7_Witness ==
    /\ pc = "done"
    /\ Succeeded
    /\ attempts = ExpectedOrder
    /\ mkdir = "created"

(***************************************************************************)
(* C8.  When a statement of the try block raises, the invocation is over:  *)
(* the error message and hint are printed and the success message is not,  *)
(* the files written to their end before it are still there, complete, and *)
(* form a strict prefix of the write order, and every file whose write was *)
(* not attempted is as the invocation found it.                            *)
(***************************************************************************)
C8_NoRollbackNoContinuation ==
    failedAt \in {"open", "resize", "save", "resize_ico", "save_ico", "manifest"} =>
        /\ pc = "done"
        /\ exitStatus = "0"
        /\ ErrorPrinted
        /\ ~SuccessPrinted
        /\ IsPrefix(Written, ExpectedOrder)
        /\ Len(Written) < Len(ExpectedOrder)
        /\ Len(attempts) <= Len(Written) + 1
        /\ \A n \in Range(Written) : n \in DOMAIN files /\ Complete(files[n])
        /\ \A n \in DOMAIN files \ Range(attempts) :
              n \in DOMAIN files0 /\ files[n] = files0[n]
        /\ \A n \in DOMAIN files0 \ Range(attempts) : n \in DOMAIN files

C8_Witness ==
    /\ failedAt = "save_ico"
    /\ pc = "done"
    /\ Len(Written) = 5
    /\ files0 = StaleDir
    /\ files["favicon.ico"] = Partial
    /\ files["site.webmanifest"] = Stale
    /\ Complete(files["android-chrome-512x512.png"])

(***************************************************************************)
(* C9.  Every call of generate_favicons() ends in exactly one of the three *)
(* outcomes (not-found guidance, success message, error message), having   *)
(* opened the logo at most once and attempted each output at most once,    *)
(* whichever statement raises.                                             *)
(***************************************************************************)
C9_OneOfThreeOutcomes ==
    /\ opens <= 1
    /\ \A j, k \in 1..Len(attempts) : attempts[j] = attempts[k] => j = k
    /\ (Entered /\ pc = "done") =>
          /\ NotFoundPrinted \/ Succeeded \/ ErrorPrinted
          /\ ~(NotFoundPrinted /\ Succeeded)
          /\ ~(NotFoundPrinted /\ ErrorPrinted)
          /\ ~(Succeeded /\ ErrorPrinted)

(***************************************************************************)
(* C10.  In an invocation started on an empty or absent public directory,  *)
(* whenever site.webmanifest is present (even truncated) the two files its *)
(* icons reference and the four other image outputs are present.           *)
(***************************************************************************)
C10_ManifestImpliesIcons ==
    (files0 = EmptyDir /\ "site.webmanifest" \in DOMAIN files) =>
        /\ \A j \in 1..Len(manifest.icons) :
              \E n \in DOMAIN files : "/" \o n = manifest.icons[j].src
        /\ "android-chrome-192x192.png" \in DOMAIN files
        /\ "android-chrome-512x512.png" \in DOMAIN files
        /\ "favicon-16x16.png" \in DOMAIN files
        /\ "favicon-32x32.png" \in DOMAIN files
        /\ "apple-touch-icon.png" \in DOMAIN files
        /\ "favicon.ico" \in DOMAIN files

C10_Witness ==
    /\ files0 = EmptyDir
    /\ failedAt = "manifest"
    /\ "site.webmanifest" \in DOMAIN files
    /\ files["site.webmanifest"] = Partial
    /\ "android-chrome-192x192.png" \in DOMAIN files

====
